---- MODULE Spec2Model ----
(***************************************************************************)
(* create_top1000_verses.py: parse a list of verse citations, resolve them *)
(* against the KJV corpus and emit them as numbered quiz questions.        *)
(*                                                                         *)
(* Strings are sequences of one-character strings, so that the regular     *)
(* expressions, strip(), int() and the f-string are computed character by  *)
(* character as the interpreter computes them.                             *)
(***************************************************************************)
EXTENDS Integers, Sequences, FiniteSets, TLC

VARIABLES
    pc,             \* position of the run inside main / extract_verses_from_kjv
    input,          \* history: how the run's input was chosen
    kjv_file,       \* the corpus document on disk
    kjv_data,       \* main: the loaded corpus
    references,     \* the reference list handed to extract_verses_from_kjv
    ref_idx,        \* position of `for ref in references`
    parsed,         \* value returned by parse_verse_reference(ref)
    parse_results,  \* history: parse result of every reference attempted
    book_abbrev,    \* BOOK_ABBREV.get(parsed['book'])
    book_idx,       \* position of `for book_entry in kjv_data`
    scanned,        \* history: references for which the corpus scan was started
    chapter_verses, \* chapters[parsed['chapter'] - 1]
    verse_num,      \* position of `for verse_num in range(...)`
    extracted,      \* the list built by extract_verses_from_kjv
    origin,         \* history: reference index and verse number of each entry
    log,            \* the lines printed as warnings
    idx,            \* position of `for idx, verse_data in enumerate(...)`
    questions,      \* output["questions"]
    written         \* the documents written to output_path

vars == <<pc, input, kjv_file, kjv_data, references, ref_idx, parsed,
          parse_results, book_abbrev, book_idx, scanned, chapter_verses,
          verse_num, extracted, origin, log, idx, questions, written>>

----------------------------------------------------------------------------
(* Bounds of the model                                                     *)

MaxRefs == 2        \* length of the reference lists drawn from RefPool
MaxNum == 2         \* largest chapter / verse number of a templated citation
MaxTextLen == 5     \* length of the verse texts drawn over TextAlphabet

----------------------------------------------------------------------------
(* Characters and the string primitives of the interpreter                 *)

Letters == {"A", "B", "C", "D", "E", "F", "G", "H", "I", "J", "K", "L", "M",
            "N", "O", "P", "Q", "R", "S", "T", "U", "V", "W", "X", "Y", "Z",
            "a", "b", "c", "d", "e", "f", "g", "h", "i", "j", "k", "l", "m",
            "n", "o", "p", "q", "r", "s", "t", "u", "v", "w", "x", "y", "z"}

Digits == <<"0", "1", "2", "3", "4", "5", "6", "7", "8", "9">>

Space == {" ", "\t", "\n"}

DigitChars == {Digits[d] : d \in 1..10}

IsDigit(c) == c \in DigitChars

IsSpace(c) == c \in Space

AlphaOrSpace == Letters \cup Space

SetMin(S) == CHOOSE x \in S : \A y \in S : x <= y

SetMax(S) == CHOOSE x \in S : \A y \in S : x >= y

\* Python's None
None == [none |-> TRUE]

\* str.strip(): drop leading and trailing whitespace
strip(s) ==
    LET keep == {k \in 1..Len(s) : ~IsSpace(s[k])}
    IN  IF keep = {} THEN <<>> ELSE SubSeq(s, SetMin(keep), SetMax(keep))

\* int() of a string of decimal digits
RECURSIVE int(_)
int(s) ==
    IF Len(s) = 0 THEN 0
    ELSE 10 * int(SubSeq(s, 1, Len(s) - 1))
         + (CHOOSE d \in 0..9 : Digits[d + 1] = s[Len(s)])

\* str() of a non-negative integer, as the f-string formats it
RECURSIVE str(_)
str(n) ==
    IF n < 10 THEN <<Digits[n + 1]>>
    ELSE str(n \div 10) \o <<Digits[(n % 10) + 1]>>

\* seq[k] of a Python list: k counts from 0, a negative k counts from the end
PyIndexValid(seq, k) ==
    IF k >= 0 THEN k < Len(seq) ELSE -k <= Len(seq)

PyIndex(seq, k) ==
    IF k >= 0 THEN seq[k + 1] ELSE seq[Len(seq) + k + 1]

----------------------------------------------------------------------------
(* Book name mappings from full names to abbreviations                     *)

BOOK_ABBREV ==
       (<<"G", "e", "n", "e", "s", "i", "s">> :> "gn")
    @@ (<<"E", "x", "o", "d", "u", "s">> :> "ex")
    @@ (<<"L", "e", "v", "i", "t", "i", "c", "u", "s">> :> "lv")
    @@ (<<"N", "u", "m", "b", "e", "r", "s">> :> "nm")
    @@ (<<"D", "e", "u", "t", "e", "r", "o", "n", "o", "m", "y">> :> "dt")
    @@ (<<"J", "o", "s", "h", "u", "a">> :> "js")
    @@ (<<"J", "u", "d", "g", "e", "s">> :> "jd")
    @@ (<<"R", "u", "t", "h">> :> "rt")
    @@ (<<"1", " ", "S", "a", "m", "u", "e", "l">> :> "1sm")
    @@ (<<"2", " ", "S", "a", "m", "u", "e", "l">> :> "2sm")
    @@ (<<"1", " ", "K", "i", "n", "g", "s">> :> "1kgs")
    @@ (<<"2", " ", "K", "i", "n", "g", "s">> :> "2kgs")
    @@ (<<"1", " ", "C", "h", "r", "o", "n", "i", "c", "l", "e", "s">> :> "1chr")
    @@ (<<"2", " ", "C", "h", "r", "o", "n", "i", "c", "l", "e", "s">> :> "2chr")
    @@ (<<"E", "z", "r", "a">> :> "ezr")
    @@ (<<"N", "e", "h", "e", "m", "i", "a", "h">> :> "neh")
    @@ (<<"E", "s", "t", "h", "e", "r">> :> "est")
    @@ (<<"J", "o", "b">> :> "jb")
    @@ (<<"P", "s", "a", "l", "m">> :> "ps")
    @@ (<<"P", "s", "a", "l", "m", "s">> :> "ps")
    @@ (<<"P", "r", "o", "v", "e", "r", "b", "s">> :> "prv")
    @@ (<<"E", "c", "c", "l", "e", "s", "i", "a", "s", "t", "e", "s">> :> "eccl")
    @@ (<<"S", "o", "n", "g", " ", "o", "f", " ", "S", "o", "l", "o", "m", "o", "n">> :> "sng")
    @@ (<<"I", "s", "a", "i", "a", "h">> :> "is")
    @@ (<<"J", "e", "r", "e", "m", "i", "a", "h">> :> "jer")
    @@ (<<"L", "a", "m", "e", "n", "t", "a", "t", "i", "o", "n", "s">> :> "lam")
    @@ (<<"E", "z", "e", "k", "i", "e", "l">> :> "ezk")
    @@ (<<"D", "a", "n", "i", "e", "l">> :> "dn")
    @@ (<<"H", "o", "s", "e", "a">> :> "hs")
    @@ (<<"J", "o", "e", "l">> :> "jl")
    @@ (<<"A", "m", "o", "s">> :> "am")
    @@ (<<"O", "b", "a", "d", "i", "a", "h">> :> "ob")
    @@ (<<"J", "o", "n", "a", "h">> :> "jnh")
    @@ (<<"M", "i", "c", "a", "h">> :> "mi")
    @@ (<<"N", "a", "h", "u", "m">> :> "na")
    @@ (<<"H", "a", "b", "a", "k", "k", "u", "k">> :> "hb")
    @@ (<<"Z", "e", "p", "h", "a", "n", "i", "a", "h">> :> "zep")
    @@ (<<"H", "a", "g", "g", "a", "i">> :> "hg")
    @@ (<<"Z", "e", "c", "h", "a", "r", "i", "a", "h">> :> "zec")
    @@ (<<"M", "a", "l", "a", "c", "h", "i">> :> "mal")
    @@ (<<"M", "a", "t", "t", "h", "e", "w">> :> "mt")
    @@ (<<"M", "a", "r", "k">> :> "mk")
    @@ (<<"L", "u", "k", "e">> :> "lk")
    @@ (<<"J", "o", "h", "n">> :> "jn")
    @@ (<<"A", "c", "t", "s">> :> "act")
    @@ (<<"R", "o", "m", "a", "n", "s">> :> "rom")
    @@ (<<"1", " ", "C", "o", "r", "i", "n", "t", "h", "i", "a", "n", "s">> :> "1cor")
    @@ (<<"2", " ", "C", "o", "r", "i", "n", "t", "h", "i", "a", "n", "s">> :> "2cor")
    @@ (<<"G", "a", "l", "a", "t", "i", "a", "n", "s">> :> "gal")
    @@ (<<"E", "p", "h", "e", "s", "i", "a", "n", "s">> :> "eph")
    @@ (<<"P", "h", "i", "l", "i", "p", "p", "i", "a", "n", "s">> :> "phi")
    @@ (<<"C", "o", "l", "o", "s", "s", "i", "a", "n", "s">> :> "col")
    @@ (<<"1", " ", "T", "h", "e", "s", "s", "a", "l", "o", "n", "i", "a", "n", "s">> :> "1th")
    @@ (<<"2", " ", "T", "h", "e", "s", "s", "a", "l", "o", "n", "i", "a", "n", "s">> :> "2th")
    @@ (<<"1", " ", "T", "i", "m", "o", "t", "h", "y">> :> "1tm")
    @@ (<<"2", " ", "T", "i", "m", "o", "t", "h", "y">> :> "2tm")
    @@ (<<"T", "i", "t", "u", "s">> :> "ti")
    @@ (<<"P", "h", "i", "l", "e", "m", "o", "n">> :> "phm")
    @@ (<<"H", "e", "b", "r", "e", "w", "s">> :> "heb")
    @@ (<<"J", "a", "m", "e", "s">> :> "jas")
    @@ (<<"1", " ", "P", "e", "t", "e", "r">> :> "1pt")
    @@ (<<"2", " ", "P", "e", "t", "e", "r">> :> "2pt")
    @@ (<<"1", " ", "J", "o", "h", "n">> :> "1jn")
    @@ (<<"2", " ", "J", "o", "h", "n">> :> "2jn")
    @@ (<<"3", " ", "J", "o", "h", "n">> :> "3jn")
    @@ (<<"J", "u", "d", "e">> :> "jude")
    @@ (<<"R", "e", "v", "e", "l", "a", "t", "i", "o", "n">> :> "rv")

----------------------------------------------------------------------------
(* parse_verse_reference                                                   *)

\* The end of the longest run of characters of a class that starts at
\* position from (from - 1 when the run is empty): a greedy  X+  or  X*.
RunEnd(s, from, class) ==
    LET stops == {k \in from..Len(s) : s[k] \notin class}
    IN  IF stops = {} THEN Len(s) ELSE SetMin(stops) - 1

\* the pattern without (?:\d\s)? : a numbered book is not accepted
re_match_no_numeral(s) ==
    LET n  == Len(s)
        e1 == RunEnd(s, 1, AlphaOrSpace)
        e2 == RunEnd(s, e1 + 1, DigitChars)
        e3 == RunEnd(s, e2 + 2, DigitChars)
        e4 == RunEnd(s, e3 + 2, DigitChars)
    IN  IF n = 0 THEN None
        ELSE IF e1 - 1 < 1 \/ ~IsSpace(s[e1]) THEN None
        ELSE IF e2 < e1 + 1 \/ e2 + 1 > n THEN None
        ELSE IF s[e2 + 1] # ":" THEN None
        ELSE IF e3 < e2 + 2 THEN None
        ELSE IF e3 = n
             THEN [g1 |-> SubSeq(s, 1, e1 - 1), g2 |-> SubSeq(s, e1 + 1, e2),
                   g3 |-> SubSeq(s, e2 + 2, e3), g4 |-> <<>>]
        ELSE IF s[e3 + 1] # "-" THEN None
        ELSE IF e4 < e3 + 2 \/ e4 # n THEN None
        ELSE [g1 |-> SubSeq(s, 1, e1 - 1), g2 |-> SubSeq(s, e1 + 1, e2),
              g3 |-> SubSeq(s, e2 + 2, e3), g4 |-> SubSeq(s, e3 + 2, e4)]

\* the pattern without its closing $ : text after the verse is ignored
re_match_unanchored(s) ==
    LET n  == Len(s)
        k0 == IF n >= 2 /\ IsDigit(s[1]) /\ IsSpace(s[2]) THEN 3 ELSE 1
        e1 == RunEnd(s, k0, AlphaOrSpace)
        e2 == RunEnd(s, e1 + 1, DigitChars)
        e3 == RunEnd(s, e2 + 2, DigitChars)
        e4 == RunEnd(s, e3 + 2, DigitChars)
    IN  IF n = 0 THEN None
        ELSE IF e1 - 1 < k0 \/ ~IsSpace(s[e1]) THEN None
        ELSE IF e2 < e1 + 1 \/ e2 + 1 > n THEN None
        ELSE IF s[e2 + 1] # ":" THEN None
        ELSE IF e3 < e2 + 2 THEN None
        ELSE IF e3 < n /\ s[e3 + 1] = "-" /\ e4 >= e3 + 2
             THEN [g1 |-> SubSeq(s, 1, e1 - 1), g2 |-> SubSeq(s, e1 + 1, e2),
                   g3 |-> SubSeq(s, e2 + 2, e3), g4 |-> SubSeq(s, e3 + 2, e4)]
        ELSE [g1 |-> SubSeq(s, 1, e1 - 1), g2 |-> SubSeq(s, e1 + 1, e2),
              g3 |-> SubSeq(s, e2 + 2, e3), g4 |-> <<>>]

\* re.match(r'^((?:\d\s)?[A-Za-z\s]+)\s+(\d+):(\d+)(?:-(\d+))?$', s)
\* The groups of the match the backtracking matcher finds, or None.
\* (?:\d\s)? is taken when it matches (a digit can not start [A-Za-z\s]+);
\* [A-Za-z\s]+ runs greedily to e1 and gives back exactly its last
\* character to \s+, since the character after the run is no whitespace;
\* every later piece is a maximal run of digits ended by a literal.
re_match(s) ==
    LET n  == Len(s)
        k0 == IF n >= 2 /\ IsDigit(s[1]) /\ IsSpace(s[2]) THEN 3 ELSE 1
        e1 == RunEnd(s, k0, AlphaOrSpace)
        e2 == RunEnd(s, e1 + 1, DigitChars)
        e3 == RunEnd(s, e2 + 2, DigitChars)
        e4 == RunEnd(s, e3 + 2, DigitChars)
    IN  IF n = 0 THEN None
        ELSE IF e1 - 1 < k0 \/ ~IsSpace(s[e1]) THEN None
        ELSE IF e2 < e1 + 1 \/ e2 + 1 > n THEN None
        ELSE IF s[e2 + 1] # ":" THEN None
        ELSE IF e3 < e2 + 2 THEN None
        ELSE IF e3 = n
             THEN [g1 |-> SubSeq(s, 1, e1 - 1), g2 |-> SubSeq(s, e1 + 1, e2),
                   g3 |-> SubSeq(s, e2 + 2, e3), g4 |-> <<>>]
        ELSE IF s[e3 + 1] # "-" THEN None
        ELSE IF e4 < e3 + 2 \/ e4 # n THEN None
        ELSE [g1 |-> SubSeq(s, 1, e1 - 1), g2 |-> SubSeq(s, e1 + 1, e2),
              g3 |-> SubSeq(s, e2 + 2, e3), g4 |-> SubSeq(s, e3 + 2, e4)]

parse_verse_reference(ref) ==
    LET match == re_match(strip(ref))
    IN  IF match = None THEN None
        ELSE [book        |-> strip(match.g1),
              chapter     |-> int(match.g2),
              start_verse |-> int(match.g3),
              end_verse   |-> IF match.g4 # <<>> THEN int(match.g4)
                              ELSE int(match.g3)]

----------------------------------------------------------------------------
(* Cleaning of a verse text                                                *)

\* re.sub(r'\{[^{}]*\}', '', text): only spans without an inner brace
RECURSIVE re_sub_innermost(_)
re_sub_innermost(text) ==
    IF Len(text) = 0 THEN <<>>
    ELSE LET braces == {j \in 2..Len(text) : text[j] \in {"{", "}"}}
         IN  IF text[1] = "{" /\ braces # {} /\ text[SetMin(braces)] = "}"
             THEN re_sub_innermost(SubSeq(text, SetMin(braces) + 1, Len(text)))
             ELSE <<text[1]>> \o re_sub_innermost(SubSeq(text, 2, Len(text)))

\* re.sub(r'\{[^}]*\}', '', text): left to right, a "{" that has a "}"
\* after it is removed together with everything up to the first such "}".
RECURSIVE re_sub(_)
re_sub(text) ==
    IF Len(text) = 0 THEN <<>>
    ELSE LET closers == {j \in 2..Len(text) : text[j] = "}"}
         IN  IF text[1] = "{" /\ closers # {}
             THEN re_sub(SubSeq(text, SetMin(closers) + 1, Len(text)))
             ELSE <<text[1]>> \o re_sub(SubSeq(text, 2, Len(text)))

clean_verse_text(verse_text) == strip(re_sub(verse_text))

verse_reference(book, chapter, verse) ==
    book \o <<" ">> \o str(chapter) \o <<":">> \o str(verse)

----------------------------------------------------------------------------
(* Inputs of a run                                                         *)

\* Verse texts that differ by book, chapter and verse; every odd verse
\* carries an annotation and surrounding whitespace.
VerseText(tag, c, v) ==
    IF v % 2 = 1
    THEN <<" ", tag>> \o str(c) \o <<"{", "n", "}", ".">> \o str(v) \o <<" ">>
    ELSE <<tag>> \o str(c) \o <<".">> \o str(v)

Chapter(tag, c, n) == [v \in 1..n |-> VerseText(tag, c, v)]

KJV_FULL ==
    << [abbrev |-> "gn", chapters |-> <<Chapter("g", 1, 2), Chapter("g", 2, 1)>>],
       [abbrev |-> "jn", chapters |-> <<Chapter("j", 1, 1), <<>>, Chapter("j", 3, 16)>>],
       [abbrev |-> "gn", chapters |-> <<Chapter("d", 1, 3)>>] >>

KJV_SPARSE ==
    << [abbrev |-> "ps", chapters |-> <<>>],
       [abbrev |-> "gn", chapters |-> << <<>> >>] >>

KJV_EMPTY == <<>>

Corpora == {KJV_FULL, KJV_SPARSE, KJV_EMPTY}

John_3_16 == <<"J", "o", "h", "n", " ", "3", ":", "1", "6">>
NotABook_1_1 == <<"N", "o", "t", "A", "B", "o", "o", "k", " ", "1", ":", "1">>
Genesis_1_1to2 == <<"G", "e", "n", "e", "s", "i", "s", " ", "1", ":", "1", "-", "2">>
Psalm_0_1 == <<"P", "s", "a", "l", "m", " ", "0", ":", "1">>
John_2_0to1 == <<"J", "o", "h", "n", " ", "2", ":", "0", "-", "1">>
Genesis_1_2to3 == <<"G", "e", "n", "e", "s", "i", "s", " ", "1", ":", "2", "-", "3">>
Genesis_3_1 == <<"G", "e", "n", "e", "s", "i", "s", " ", "3", ":", "1">>
Exodus_1_1 == <<"E", "x", "o", "d", "u", "s", " ", "1", ":", "1">>
John_3_16to4_2 == <<"J", "o", "h", "n", " ", "3", ":", "1", "6", "-", "4", ":", "2">>
Genesis_1_0 == <<"G", "e", "n", "e", "s", "i", "s", " ", "1", ":", "0">>
Genesis_0_1 == <<"G", "e", "n", "e", "s", "i", "s", " ", "0", ":", "1">>
Psalm_23_1 == <<"P", "s", "a", "l", "m", " ", "2", "3", ":", "1">>
Genesis_1_2to1 == <<"G", "e", "n", "e", "s", "i", "s", " ", "1", ":", "2", "-", "1">>

RefPool == {John_3_16, NotABook_1_1, Genesis_1_1to2, Psalm_0_1,
            John_2_0to1, Genesis_1_2to3, Genesis_3_1, Exodus_1_1,
            John_3_16to4_2, Genesis_1_0, Genesis_0_1, Genesis_1_2to1,
            Psalm_23_1}

Lists(S, n) == UNION {[1..k -> S] : k \in 0..n}

BuildExample == <<John_3_16, NotABook_1_1, Genesis_1_1to2>>

RefLists == Lists(RefPool, MaxRefs) \cup {BuildExample}

\* Templated citations: the pieces a citation is assembled from, and at
\* most one defect that takes it out of the accepted shape.
BkJohn == <<"J", "o", "h", "n">>
Bk1John == <<"1", " ", "J", "o", "h", "n">>
BkSongOfSolomon == <<"S", "o", "n", "g", " ", "o", "f", " ", "S", "o", "l", "o", "m", "o", "n">>
BkNotABook == <<"N", "o", "t", "A", "B", "o", "o", "k">>
BkGenesis == <<"G", "e", "n", "e", "s", "i", "s">>

TplBooks == {BkJohn, Bk1John, BkSongOfSolomon, BkNotABook, BkGenesis}

Defects == {"none", "no_space", "alpha_chapter", "alpha_verse", "no_colon",
            "two_colons", "cross_chapter", "two_hyphens", "open_range",
            "trailing_text", "digit_in_book", "no_book"}

Templates ==
    {t \in [pre : {<<>>, <<" ">>}, book : TplBooks,
            sep : {<<" ">>, <<" ", "\t">>}, pad : {<<>>, <<"0">>},
            C : 0..MaxNum, V1 : 0..MaxNum, range : BOOLEAN, V2 : 0..MaxNum,
            post : {<<>>, <<" ">>}, defect : Defects] :
        /\ ~t.range => t.V2 = t.V1
        /\ t.defect # "none" => t.pre = <<>> /\ t.post = <<>> /\ t.pad = <<>>
                                 /\ t.sep = <<" ">>}

Numeral(t, n) == t.pad \o str(n)

Assemble(t) ==
    LET book  == CASE t.defect = "digit_in_book" -> t.book \o <<"2">>
                   [] t.defect = "no_book" -> <<>>
                   [] OTHER -> t.book
        sep   == IF t.defect = "no_space" THEN <<>> ELSE t.sep
        chap  == IF t.defect = "alpha_chapter" THEN <<"x">> ELSE Numeral(t, t.C)
        colon == CASE t.defect = "no_colon" -> <<" ">>
                   [] t.defect = "two_colons" -> <<":", ":">>
                   [] OTHER -> <<":">>
        v1    == IF t.defect = "alpha_verse" THEN <<"x">> ELSE Numeral(t, t.V1)
        tail  == IF t.range \/ t.defect = "two_hyphens"
                 THEN <<"-">> \o Numeral(t, t.V2) ELSE <<>>
        extra == CASE t.defect = "cross_chapter" -> <<"-", "4", ":", "2">>
                   [] t.defect = "two_hyphens" -> <<"-", "2">>
                   [] t.defect = "open_range" -> <<"-">>
                   [] t.defect = "trailing_text" -> <<" ", "a">>
                   [] OTHER -> <<>>
    IN  t.pre \o book \o sep \o chap \o colon \o v1
        \o (IF t.defect = "cross_chapter" THEN <<>> ELSE tail) \o extra \o t.post

TextAlphabet == {"{", "}", " ", "a"}

Texts == Lists(TextAlphabet, MaxTextLen)

Genesis_1_1 == <<"G", "e", "n", "e", "s", "i", "s", " ", "1", ":", "1">>

Unreadable == [ok |-> FALSE, data |-> <<>>]

Readable(corpus) == [ok |-> TRUE, data |-> corpus]

InitRun(in, file, refs) ==
    /\ input = in
    /\ kjv_file = file
    /\ references = refs
    /\ pc = "load"
    /\ kjv_data = <<>>
    /\ ref_idx = 0
    /\ parsed = None
    /\ parse_results = <<>>
    /\ book_abbrev = ""
    /\ book_idx = 0
    /\ scanned = {}
    /\ chapter_verses = <<>>
    /\ verse_num = 0
    /\ extracted = <<>>
    /\ origin = <<>>
    /\ log = <<>>
    /\ idx = 0
    /\ questions = <<>>
    /\ written = <<>>

Init ==
    \/ \E refs \in RefLists, corpus \in Corpora :
           InitRun([family |-> "list"], Readable(corpus), refs)
    \/ \E refs \in RefLists :
           InitRun([family |-> "list"], Unreadable, refs)
    \/ \E t \in Templates :
           InitRun([family |-> "template", tpl |-> t], Readable(KJV_FULL),
                   <<Assemble(t)>>)
    \/ \E text \in Texts :
           InitRun([family |-> "text", text |-> text],
                   Readable(<<[abbrev |-> "gn", chapters |-> << <<text>> >>]>>),
                   <<Genesis_1_1>>)

----------------------------------------------------------------------------
(* main: loading the corpus                                                *)

\* json.load succeeds: main goes on to extract_verses_from_kjv
LoadKJV ==
    /\ pc = "load"
    /\ kjv_file.ok
    /\ kjv_data' = kjv_file.data
    /\ ref_idx' = 1
    /\ pc' = "for_ref"
    /\ UNCHANGED <<input, kjv_file, references, parsed, parse_results,
                   book_abbrev, book_idx, scanned, chapter_verses, verse_num,
                   extracted, origin, log, idx, questions, written>>

\* the except branch without its `return`: main goes on to the extraction
LoadError_no_return ==
    /\ pc = "load"
    /\ ~kjv_file.ok
    /\ log' = Append(log, [kind |-> "Error loading KJV file", at |-> 0, ctx |-> <<>>])
    /\ ref_idx' = 1
    /\ pc' = "for_ref"
    /\ UNCHANGED <<input, kjv_file, kjv_data, references, parsed,
                   parse_results, book_abbrev, book_idx, scanned,
                   chapter_verses, verse_num, extracted, origin, idx,
                   questions, written>>

\* open / json.load raises: main prints the error and returns
LoadError ==
    /\ pc = "load"
    /\ ~kjv_file.ok
    /\ log' = Append(log, [kind |-> "Error loading KJV file", at |-> 0, ctx |-> <<>>])
    /\ pc' = "returned"
    /\ UNCHANGED <<input, kjv_file, kjv_data, references, ref_idx, parsed,
                   parse_results, book_abbrev, book_idx, scanned,
                   chapter_verses, verse_num, extracted, origin, idx,
                   questions, written>>

----------------------------------------------------------------------------
(* extract_verses_from_kjv                                                 *)

Warning(kind, ctx) == [kind |-> kind, at |-> ref_idx, ctx |-> ctx]

\* `continue`, or the end of the loop body: on to the next reference
NextRef ==
    /\ ref_idx' = ref_idx + 1
    /\ pc' = "for_ref"

\* parse_verse_reference returns None: warn and continue
CouldNotParse ==
    /\ pc = "for_ref"
    /\ ref_idx <= Len(references)
    /\ parse_verse_reference(references[ref_idx]) = None
    /\ parsed' = None
    /\ parse_results' = Append(parse_results, None)
    /\ log' = Append(log, Warning("Could not parse reference", references[ref_idx]))
    /\ NextRef
    /\ UNCHANGED <<input, kjv_file, kjv_data, references, book_abbrev,
                   book_idx, scanned, chapter_verses, verse_num, extracted,
                   origin, idx, questions, written>>

\* parse_verse_reference returns a dict
Parsed ==
    /\ pc = "for_ref"
    /\ ref_idx <= Len(references)
    /\ parse_verse_reference(references[ref_idx]) # None
    /\ parsed' = parse_verse_reference(references[ref_idx])
    /\ parse_results' = Append(parse_results, parsed')
    /\ pc' = "lookup"
    /\ UNCHANGED <<input, kjv_file, kjv_data, references, ref_idx,
                   book_abbrev, book_idx, scanned, chapter_verses, verse_num,
                   extracted, origin, log, idx, questions, written>>

\* the warning without its `continue`: the scan runs with book_abbrev None
UnknownBook_no_continue ==
    /\ pc = "lookup"
    /\ parsed.book \notin DOMAIN BOOK_ABBREV
    /\ log' = Append(log, Warning("Unknown book", parsed.book))
    /\ book_abbrev' = "None"
    /\ book_idx' = 1
    /\ scanned' = scanned \cup {ref_idx}
    /\ pc' = "for_book"
    /\ UNCHANGED <<input, kjv_file, kjv_data, references, ref_idx, parsed,
                   parse_results, chapter_verses, verse_num, extracted,
                   origin, idx, questions, written>>

\* BOOK_ABBREV.get gives None: warn and continue
UnknownBook ==
    /\ pc = "lookup"
    /\ parsed.book \notin DOMAIN BOOK_ABBREV
    /\ log' = Append(log, Warning("Unknown book", parsed.book))
    /\ NextRef
    /\ UNCHANGED <<input, kjv_file, kjv_data, references, parsed,
                   parse_results, book_abbrev, book_idx, scanned,
                   chapter_verses, verse_num, extracted, origin, idx,
                   questions, written>>

\* the book name is mapped: start `for book_entry in kjv_data`
FindBook ==
    /\ pc = "lookup"
    /\ parsed.book \in DOMAIN BOOK_ABBREV
    /\ book_abbrev' = BOOK_ABBREV[parsed.book]
    /\ book_idx' = 1
    /\ scanned' = scanned \cup {ref_idx}
    /\ pc' = "for_book"
    /\ UNCHANGED <<input, kjv_file, kjv_data, references, ref_idx, parsed,
                   parse_results, chapter_verses, verse_num, extracted,
                   origin, log, idx, questions, written>>

\* book_entry.get('abbrev') differs: next book entry
SkipBook ==
    /\ pc = "for_book"
    /\ book_idx <= Len(kjv_data)
    /\ kjv_data[book_idx].abbrev # book_abbrev
    /\ book_idx' = book_idx + 1
    /\ UNCHANGED <<pc, input, kjv_file, kjv_data, references, ref_idx, parsed,
                   parse_results, book_abbrev, scanned, chapter_verses,
                   verse_num, extracted, origin, log, idx, questions, written>>

\* the loop over kjv_data ends with book_found still False
BookNotFound ==
    /\ pc = "for_book"
    /\ book_idx > Len(kjv_data)
    /\ log' = Append(log, Warning("Book not found in KJV data", parsed.book))
    /\ NextRef
    /\ UNCHANGED <<input, kjv_file, kjv_data, references, parsed,
                   parse_results, book_abbrev, book_idx, scanned,
                   chapter_verses, verse_num, extracted, origin, idx,
                   questions, written>>

chapters == kjv_data[book_idx].chapters

BookMatches ==
    /\ pc = "for_book"
    /\ book_idx <= Len(kjv_data)
    /\ kjv_data[book_idx].abbrev = book_abbrev

\* the warning with the `break` left inside the if branch: the scan of
\* kjv_data goes on after the warning
ChapterNotFound_no_break ==
    /\ BookMatches
    /\ ~(parsed.chapter - 1 < Len(chapters))
    /\ log' = Append(log, Warning("Chapter not found", <<parsed.book, parsed.chapter>>))
    /\ book_idx' = book_idx + 1
    /\ UNCHANGED <<pc, input, kjv_file, kjv_data, references, ref_idx, parsed,
                   parse_results, book_abbrev, scanned, chapter_verses,
                   verse_num, extracted, origin, idx, questions, written>>

\* `parsed['chapter'] - 1 < len(chapters)` is false: warn, break
ChapterNotFound ==
    /\ BookMatches
    /\ ~(parsed.chapter - 1 < Len(chapters))
    /\ log' = Append(log, Warning("Chapter not found", <<parsed.book, parsed.chapter>>))
    /\ NextRef
    /\ UNCHANGED <<input, kjv_file, kjv_data, references, parsed,
                   parse_results, book_abbrev, book_idx, scanned,
                   chapter_verses, verse_num, extracted, origin, idx,
                   questions, written>>

\* chapters[parsed['chapter'] - 1] is evaluated and gives a chapter
EnterChapter ==
    /\ BookMatches
    /\ parsed.chapter - 1 < Len(chapters)
    /\ PyIndexValid(chapters, parsed.chapter - 1)
    /\ chapter_verses' = PyIndex(chapters, parsed.chapter - 1)
    /\ verse_num' = parsed.start_verse
    /\ pc' = "for_verse"
    /\ UNCHANGED <<input, kjv_file, kjv_data, references, ref_idx, parsed,
                   parse_results, book_abbrev, book_idx, scanned, extracted,
                   origin, log, idx, questions, written>>

\* chapters[parsed['chapter'] - 1] raises IndexError, which nothing catches
ChapterIndexError ==
    /\ BookMatches
    /\ parsed.chapter - 1 < Len(chapters)
    /\ ~PyIndexValid(chapters, parsed.chapter - 1)
    /\ pc' = "IndexError"
    /\ UNCHANGED <<input, kjv_file, kjv_data, references, ref_idx, parsed,
                   parse_results, book_abbrev, book_idx, scanned,
                   chapter_verses, verse_num, extracted, origin, log, idx,
                   questions, written>>

\* extracted.insert(0, ...) in place of extracted.append(...)
ExtractVerse_prepend ==
    /\ pc = "for_verse"
    /\ verse_num <= parsed.end_verse
    /\ verse_num - 1 < Len(chapter_verses)
    /\ PyIndexValid(chapter_verses, verse_num - 1)
    /\ extracted' =
           <<[reference |-> verse_reference(parsed.book, parsed.chapter, verse_num),
              text      |-> clean_verse_text(PyIndex(chapter_verses, verse_num - 1))]>>
           \o extracted
    /\ origin' = <<[ref |-> ref_idx, verse_num |-> verse_num]>> \o origin
    /\ verse_num' = verse_num + 1
    /\ UNCHANGED <<pc, input, kjv_file, kjv_data, references, ref_idx, parsed,
                   parse_results, book_abbrev, book_idx, scanned,
                   chapter_verses, log, idx, questions, written>>

\* one verse of the range is cleaned and appended
ExtractVerse ==
    /\ pc = "for_verse"
    /\ verse_num <= parsed.end_verse
    /\ verse_num - 1 < Len(chapter_verses)
    /\ PyIndexValid(chapter_verses, verse_num - 1)
    /\ extracted' = Append(extracted,
           [reference |-> verse_reference(parsed.book, parsed.chapter, verse_num),
            text      |-> clean_verse_text(PyIndex(chapter_verses, verse_num - 1))])
    /\ origin' = Append(origin, [ref |-> ref_idx, verse_num |-> verse_num])
    /\ verse_num' = verse_num + 1
    /\ UNCHANGED <<pc, input, kjv_file, kjv_data, references, ref_idx, parsed,
                   parse_results, book_abbrev, book_idx, scanned,
                   chapter_verses, log, idx, questions, written>>

\* chapter_verses[verse_num - 1] raises IndexError, which nothing catches
VerseIndexError ==
    /\ pc = "for_verse"
    /\ verse_num <= parsed.end_verse
    /\ verse_num - 1 < Len(chapter_verses)
    /\ ~PyIndexValid(chapter_verses, verse_num - 1)
    /\ pc' = "IndexError"
    /\ UNCHANGED <<input, kjv_file, kjv_data, references, ref_idx, parsed,
                   parse_results, book_abbrev, book_idx, scanned,
                   chapter_verses, verse_num, extracted, origin, log, idx,
                   questions, written>>

\* the warning followed by `break`: the rest of the range is dropped
VerseNotFound_break ==
    /\ pc = "for_verse"
    /\ verse_num <= parsed.end_verse
    /\ ~(verse_num - 1 < Len(chapter_verses))
    /\ log' = Append(log, Warning("Verse not found",
                                  <<verse_num, parsed.book, parsed.chapter>>))
    /\ verse_num' = parsed.end_verse + 1
    /\ UNCHANGED <<pc, input, kjv_file, kjv_data, references, ref_idx, parsed,
                   parse_results, book_abbrev, book_idx, scanned,
                   chapter_verses, extracted, origin, idx, questions, written>>

\* `verse_num - 1 < len(chapter_verses)` is false: warn, next verse
VerseNotFound ==
    /\ pc = "for_verse"
    /\ verse_num <= parsed.end_verse
    /\ ~(verse_num - 1 < Len(chapter_verses))
    /\ log' = Append(log, Warning("Verse not found",
                                  <<verse_num, parsed.book, parsed.chapter>>))
    /\ verse_num' = verse_num + 1
    /\ UNCHANGED <<pc, input, kjv_file, kjv_data, references, ref_idx, parsed,
                   parse_results, book_abbrev, book_idx, scanned,
                   chapter_verses, extracted, origin, idx, questions, written>>

\* the verse loop ends without the `break`: the scan of kjv_data goes on
EndOfRange_no_break ==
    /\ pc = "for_verse"
    /\ verse_num > parsed.end_verse
    /\ book_idx' = book_idx + 1
    /\ pc' = "for_book"
    /\ UNCHANGED <<input, kjv_file, kjv_data, references, ref_idx, parsed,
                   parse_results, book_abbrev, scanned, chapter_verses,
                   verse_num, extracted, origin, log, idx, questions, written>>

\* range(start_verse, end_verse + 1) is exhausted: break out of the scan
EndOfRange ==
    /\ pc = "for_verse"
    /\ verse_num > parsed.end_verse
    /\ NextRef
    /\ UNCHANGED <<input, kjv_file, kjv_data, references, parsed,
                   parse_results, book_abbrev, book_idx, scanned,
                   chapter_verses, verse_num, extracted, origin, log, idx,
                   questions, written>>

\* `for ref in references` is exhausted: return extracted to main
ReturnExtracted ==
    /\ pc = "for_ref"
    /\ ref_idx > Len(references)
    /\ idx' = 1
    /\ pc' = "for_question"
    /\ UNCHANGED <<input, kjv_file, kjv_data, references, ref_idx, parsed,
                   parse_results, book_abbrev, book_idx, scanned,
                   chapter_verses, verse_num, extracted, origin, log,
                   questions, written>>

----------------------------------------------------------------------------
(* main: building and saving the questions                                 *)

WhatDoes == <<"W", "h", "a", "t", " ", "d", "o", "e", "s", " ">>

Say == <<" ", "s", "a", "y", "?">>

\* enumerate(extracted_verses) without its start argument counts from 0
Question_from_zero(i, verse_data) ==
    [id             |-> i - 1,
     verse_reference |-> verse_data.reference,
     verse_text     |-> verse_data.text,
     question       |-> WhatDoes \o verse_data.reference \o Say,
     correct_answer |-> verse_data.text,
     options        |-> <<>>]

\* one quiz question; idx comes from enumerate(extracted_verses, 1)
Question(i, verse_data) ==
    [id             |-> i,
     verse_reference |-> verse_data.reference,
     verse_text     |-> verse_data.text,
     question       |-> WhatDoes \o verse_data.reference \o Say,
     correct_answer |-> verse_data.text,
     options        |-> <<>>]

AppendQuestion ==
    /\ pc = "for_question"
    /\ idx <= Len(extracted)
    /\ questions' = Append(questions, Question(idx, extracted[idx]))
    /\ idx' = idx + 1
    /\ UNCHANGED <<pc, input, kjv_file, kjv_data, references, ref_idx, parsed,
                   parse_results, book_abbrev, book_idx, scanned,
                   chapter_verses, verse_num, extracted, origin, log, written>>

\* json.dump of the output document
SaveOutput ==
    /\ pc = "for_question"
    /\ idx > Len(extracted)
    /\ written' = Append(written, [theme_name |-> "Top 1000 Popular Verses",
                                   questions  |-> questions])
    /\ pc' = "done"
    /\ UNCHANGED <<input, kjv_file, kjv_data, references, ref_idx, parsed,
                   parse_results, book_abbrev, book_idx, scanned,
                   chapter_verses, verse_num, extracted, origin, log, idx,
                   questions>>

Next ==
    \/ LoadKJV
    \/ LoadError
    \/ CouldNotParse
    \/ Parsed
    \/ UnknownBook
    \/ FindBook
    \/ SkipBook
    \/ BookNotFound
    \/ ChapterNotFound
    \/ EnterChapter
    \/ ChapterIndexError
    \/ ExtractVerse
    \/ VerseIndexError
    \/ VerseNotFound
    \/ EndOfRange
    \/ ReturnExtracted
    \/ AppendQuestion
    \/ SaveOutput

Spec == Init /\ [][Next]_vars

TypeOK ==
    /\ pc \in {"load", "returned", "for_ref", "lookup", "for_book",
               "for_verse", "IndexError", "for_question", "done"}
    /\ ref_idx \in 0..(Len(references) + 1)
    /\ Len(origin) = Len(extracted)
    /\ Len(written) <= 1

----------------------------------------------------------------------------
(* Properties                                                              *)

\* the references whose loop body has run to its end
Finished == {r \in 1..Len(parse_results) : r < ref_idx}

\* positions of `extracted` that reference r contributed
EntriesOf(r) == {k \in 1..Len(origin) : origin[k].ref = r}

\* the entries of reference r, in the order they stand in `extracted`
SegmentOf(r) ==
    IF EntriesOf(r) = {} THEN <<>>
    ELSE SubSeq(extracted, SetMin(EntriesOf(r)), SetMax(EntriesOf(r)))

WarningsOf(r) == {k \in 1..Len(log) : log[k].at = r}

\* the first corpus book carrying the identifier the book name maps to
HasBook(P) ==
    /\ P.book \in DOMAIN BOOK_ABBREV
    /\ \E k \in 1..Len(kjv_data) : kjv_data[k].abbrev = BOOK_ABBREV[P.book]

BookOf(P) ==
    kjv_data[SetMin({k \in 1..Len(kjv_data) :
                        kjv_data[k].abbrev = BOOK_ABBREV[P.book]})]

Cited(P, v) == P.book \o <<" ">> \o str(P.chapter) \o <<":">> \o str(v)

CountOf(s, c) == Cardinality({k \in 1..Len(s) : s[k] = c})

\* C1: the questions number as many as the extracted verses and their ids,
\* in output order, are 1, 2, ..., n: no gap, no repeat, no restart per
\* reference.
C1_IdsContiguous ==
    /\ \A k \in 1..Len(questions) : questions[k].id = k
    /\ pc = "done" =>
          /\ Len(written) = 1
          /\ Len(written[1].questions) = Len(extracted)
          /\ \A k \in 1..Len(extracted) : written[1].questions[k].id = k

C1_Witness ==
    /\ pc = "done"
    /\ Len(written[1].questions) >= 3
    /\ \E k \in 1..Len(origin) : origin[k].ref # origin[1].ref

\* C2: no reference makes the run abort: extract_verses_from_kjv never
\* ends in an uncaught exception, whatever the references and the corpus.
C2_NeverAborts == pc # "IndexError"

\* C3: every extracted verse of a parsed reference (book B, chapter c, verse
\* v of its range) is named "B c:v" and carries the cleaned text stored at
\* verse v of chapter c (both counted from 1) of the first corpus book with
\* B's identifier, and of no other position.
C3_TextOfCitedPosition ==
    \A k \in 1..Len(extracted) :
        LET P == parse_results[origin[k].ref]
            v == origin[k].verse_num
        IN  /\ P # None
            /\ P.start_verse <= v /\ v <= P.end_verse
            /\ extracted[k].reference = Cited(P, v)
            /\ HasBook(P)
            /\ P.chapter \in 1..Len(BookOf(P).chapters)
            /\ v \in 1..Len(BookOf(P).chapters[P.chapter])
            /\ extracted[k].text =
                   clean_verse_text(BookOf(P).chapters[P.chapter][v])

\* C4: a citation assembled as "Book C:V" or "Book C:V1-V2" (numbered book,
\* book of several words, whitespace around the whole string included)
\* parses to exactly that book, chapter C and verses V..V or V1..V2.
C4_ParsesValidCitation ==
    (input.family = "template" /\ Len(parse_results) >= 1) =>
        (input.tpl.defect = "none" =>
            parse_results[1] = [book        |-> input.tpl.book,
                                chapter     |-> input.tpl.C,
                                start_verse |-> input.tpl.V1,
                                end_verse   |-> input.tpl.V2])

C4_Witness ==
    /\ input.family = "template"
    /\ input.tpl.defect = "none"
    /\ input.tpl.book = Bk1John
    /\ input.tpl.pre = <<" ">> /\ input.tpl.post = <<" ">>
    /\ input.tpl.range /\ input.tpl.V1 = 1 /\ input.tpl.V2 = 2
    /\ Len(parse_results) = 1
    /\ parse_results[1] # None
    /\ parse_results[1].end_verse = 2

\* C5: a range V1..V2 (V2 >= V1) whose book and chapter resolve yields one
\* extracted verse for each v of the range not beyond the chapter's verse
\* count; a verse beyond it does not stop the rest of the range.
C5_OnePerVerseInRange ==
    \A r \in 1..Len(parse_results) :
        LET P == parse_results[r]
        IN  (/\ P # None
             /\ CountOf(references[r], "-") = 1
             /\ P.end_verse >= P.start_verse
             /\ HasBook(P)
             /\ P.chapter \in 1..Len(BookOf(P).chapters))
            =>
            LET count == Len(BookOf(P).chapters[P.chapter])
            IN  /\ ~(pc = "IndexError" /\ ref_idx = r)
                /\ r \in Finished =>
                      Cardinality(EntriesOf(r)) =
                          Cardinality({v \in P.start_verse..P.end_verse :
                                          v <= count})

\* C6: every Reference parse_verse_reference returns has a positive
\* chapter, a positive start_verse and an end_verse >= start_verse.
C6_ReferenceInvariant ==
    \A r \in 1..Len(parse_results) :
        parse_results[r] # None =>
            /\ parse_results[r].chapter >= 1
            /\ parse_results[r].start_verse >= 1
            /\ parse_results[r].end_verse >= parse_results[r].start_verse

\* The accepted shape, stated on the trimmed string: a book part (letters
\* and whitespace, optionally led by one digit and a whitespace), a
\* whitespace, a run of digits, one colon, a run of digits and optionally a
\* hyphen and a run of digits; nothing else.
AllOf(s, a, b, class) == \A k \in a..b : s[k] \in class

BookShape(s, e) ==
    /\ e >= 1
    /\ \/ AllOf(s, 1, e, AlphaOrSpace)
       \/ e >= 3 /\ IsDigit(s[1]) /\ IsSpace(s[2]) /\ AllOf(s, 3, e, AlphaOrSpace)

VersesShape(s, from) ==
    \/ from <= Len(s) /\ AllOf(s, from, Len(s), DigitChars)
    \/ \E h \in (from + 1)..(Len(s) - 1) :
          /\ s[h] = "-"
          /\ AllOf(s, from, h - 1, DigitChars)
          /\ AllOf(s, h + 1, Len(s), DigitChars)

CitationShape(s) ==
    \E sp \in 1..Len(s), col \in 1..Len(s) :
        /\ sp + 1 < col
        /\ IsSpace(s[sp])
        /\ s[col] = ":"
        /\ AllOf(s, sp + 1, col - 1, DigitChars)
        /\ BookShape(s, sp - 1)
        /\ VersesShape(s, col + 1)

\* C7: a string outside the accepted shape (cross-chapter range, two
\* colons, two hyphens, non-numeric chapter or verse, ...) gets None from
\* parse_verse_reference, one parse warning, and no extracted verse.
C7_MalformedRejected ==
    \A r \in 1..Len(parse_results) :
        (\/ ~CitationShape(strip(references[r]))
         \/ CountOf(references[r], ":") # 1
         \/ CountOf(references[r], "-") > 1
         \/ (input.family = "template" /\ input.tpl.defect # "none"))
        =>
        /\ parse_results[r] = None
        /\ EntriesOf(r) = {}
        /\ \E k \in WarningsOf(r) : log[k].kind = "Could not parse reference"

C7_Witness ==
    /\ input.family = "template"
    /\ input.tpl.defect = "cross_chapter"
    /\ input.tpl.book = BkJohn
    /\ pc = "done"
    /\ parse_results = <<None>>
    /\ extracted = <<>>

\* C8: a reference whose book name is not in BOOK_ABBREV never raises: it
\* gives no verse and exactly one warning, "Unknown book", and the corpus
\* is not scanned for it.  Building <<"John 3:16", "NotABook 1:1",
\* "Genesis 1:1-2">> over a corpus holding these John and Genesis verses
\* gives 3 questions with ids 1, 2, 3 and that one warning.
C8_UnknownBookSkipped ==
    /\ \A r \in 1..Len(parse_results) :
          (parse_results[r] # None
           /\ parse_results[r].book \notin DOMAIN BOOK_ABBREV)
          =>
          /\ r \notin scanned
          /\ EntriesOf(r) = {}
          /\ ~(pc = "IndexError" /\ ref_idx = r)
          /\ r \in Finished =>
                /\ Cardinality(WarningsOf(r)) = 1
                /\ \A k \in WarningsOf(r) : log[k].kind = "Unknown book"
    /\ (references = BuildExample /\ kjv_data = KJV_FULL /\ pc = "done") =>
          /\ Len(written[1].questions) = 3
          /\ [k \in 1..3 |-> written[1].questions[k].id] = <<1, 2, 3>>
          /\ [k \in 1..3 |-> written[1].questions[k].verse_reference]
                = <<John_3_16, Genesis_1_1,
                    <<"G", "e", "n", "e", "s", "i", "s", " ", "1", ":", "2">> >>
          /\ Len(log) = 1
          /\ log[1].kind = "Unknown book"

C8_Witness ==
    /\ references = BuildExample
    /\ kjv_data = KJV_FULL
    /\ pc = "done"
    /\ Len(log) = 1

\* C9: the output is the concatenation of the references' verses in input
\* order: verses of an earlier reference stand before those of a later one,
\* the verses of one reference stand in increasing verse number, and a
\* reference given twice contributes its verses twice.
C9_InputOrder ==
    /\ \A k, l \in 1..Len(origin) :
          k < l =>
             \/ origin[k].ref < origin[l].ref
             \/ /\ origin[k].ref = origin[l].ref
                /\ origin[k].verse_num < origin[l].verse_num
    /\ \A k \in 1..Len(extracted) :
          extracted[k].reference =
              Cited(parse_results[origin[k].ref], origin[k].verse_num)
    /\ \A r1, r2 \in Finished :
          references[r1] = references[r2] => SegmentOf(r1) = SegmentOf(r2)
    /\ pc = "done" =>
          /\ Len(written[1].questions) = Len(extracted)
          /\ \A k \in 1..Len(extracted) :
                /\ written[1].questions[k].verse_reference = extracted[k].reference
                /\ written[1].questions[k].verse_text = extracted[k].text

C9_Witness ==
    /\ pc = "done"
    /\ references = <<Genesis_1_1to2, Genesis_1_1to2>>
    /\ Len(written[1].questions) = 4
    /\ written[1].questions[3].verse_reference = Genesis_1_1

\* C10: cleaning a verse text (removing the {...} spans, then trimming)
\* and cleaning the result again changes nothing more, also for nested,
\* unbalanced and adjacent braces.
C10_CleanIdempotent ==
    \A k \in 1..Len(extracted) :
        clean_verse_text(extracted[k].text) = extracted[k].text

C10_Witness ==
    /\ input.family = "text"
    /\ input.text = <<"{", "{", "a", "}", "}">>
    /\ Len(extracted) = 1
    /\ extracted[1].text = <<"}">>

\* C11: a corpus that can not be loaded ends the run before any reference
\* is parsed or resolved and without an output document; in every run the
\* corpus is loaded first, then all references are resolved, then the
\* output is written, once.
C11_LoadThenResolveThenWrite ==
    /\ ~kjv_file.ok =>
          /\ pc \in {"load", "returned"}
          /\ parse_results = <<>> /\ scanned = {} /\ ref_idx = 0
          /\ extracted = <<>> /\ questions = <<>> /\ written = <<>>
    /\ pc = "returned" => ~ENABLED Next
    /\ (parse_results # <<>> \/ ref_idx > 0) =>
          kjv_file.ok /\ kjv_data = kjv_file.data
    /\ (questions # <<>> \/ written # <<>>) =>
          /\ ref_idx = Len(references) + 1
          /\ Len(parse_results) = Len(references)
    /\ written # <<>> =>
          /\ Len(written) = 1
          /\ pc = "done"
          /\ written[1].questions = questions
          /\ Len(questions) = Len(extracted)

C11_Witness ==
    /\ ~kjv_file.ok
    /\ pc = "returned"
    /\ Len(references) = 2
    /\ Len(log) = 1
    /\ log[1].kind = "Error loading KJV file"

WarningsOfKind(r, kind) == {k \in WarningsOf(r) : log[k].kind = kind}

\* C12: when the chapter number of a parsed reference exceeds the number of
\* chapters of the located book (a book without chapters included), the
\* reference gives no verse and exactly one "Chapter not found" warning,
\* and no verse of it is looked at; when the chapter number does not exceed
\* the count, no such warning is given.
C12_ChapterOutOfRange ==
    \A r \in 1..Len(parse_results) :
        LET P == parse_results[r]
        IN  (P # None /\ HasBook(P)) =>
               IF P.chapter > Len(BookOf(P).chapters)
               THEN /\ EntriesOf(r) = {}
                    /\ WarningsOfKind(r, "Verse not found") = {}
                    /\ ~(ref_idx = r /\ pc \in {"for_verse", "IndexError"})
                    /\ Cardinality(WarningsOfKind(r, "Chapter not found")) <= 1
                    /\ r \in Finished =>
                          /\ Cardinality(WarningsOf(r)) = 1
                          /\ Cardinality(WarningsOfKind(r, "Chapter not found")) = 1
               ELSE WarningsOfKind(r, "Chapter not found") = {}

C12_Witness ==
    /\ pc = "done"
    /\ kjv_data = KJV_SPARSE
    /\ references = <<Psalm_23_1, Genesis_3_1>>
    /\ extracted = <<>>
    /\ Len(log) = 2
    /\ \A k \in 1..2 : log[k].kind = "Chapter not found" /\ log[k].at = k

Mapped(P) == P # None /\ P.book \in DOMAIN BOOK_ABBREV

MatchingBooks(P) ==
    {k \in 1..Len(kjv_data) : kjv_data[k].abbrev = BOOK_ABBREV[P.book]}

\* C13: a reference whose book name is mapped but whose identifier no
\* corpus book carries gives no verse and exactly one "Book not found"
\* warning; when some corpus book carries the identifier there is no such
\* warning, the scan stops at the first such book in corpus order, and
\* every verse of the reference comes from that first book.
C13_FirstBookOnly ==
    \A r \in 1..Len(parse_results) :
        LET P == parse_results[r]
        IN  Mapped(P) =>
               IF MatchingBooks(P) = {}
               THEN /\ EntriesOf(r) = {}
                    /\ ~(ref_idx = r /\ pc \in {"for_verse", "IndexError"})
                    /\ r \in Finished =>
                          /\ Cardinality(WarningsOf(r)) = 1
                          /\ Cardinality(WarningsOfKind(r, "Book not found in KJV data")) = 1
               ELSE LET first == SetMin(MatchingBooks(P))
                    IN  /\ WarningsOfKind(r, "Book not found in KJV data") = {}
                        /\ (ref_idx = r /\ pc \in {"for_book", "for_verse", "IndexError"})
                              => book_idx <= first
                        /\ (ref_idx = r /\ pc = "for_verse")
                              => /\ book_idx = first
                                 /\ chapter_verses =
                                       PyIndex(kjv_data[first].chapters, P.chapter - 1)
                        /\ \A k \in EntriesOf(r) :
                              extracted[k].text =
                                  clean_verse_text(
                                      PyIndex(PyIndex(kjv_data[first].chapters,
                                                      P.chapter - 1),
                                              origin[k].verse_num - 1))
                        /\ Cardinality(EntriesOf(r)) <=
                               Cardinality(P.start_verse..P.end_verse)

C13_Witness ==
    /\ pc = "done"
    /\ kjv_data = KJV_FULL
    /\ references = <<Exodus_1_1, Genesis_1_1to2>>
    /\ Len(log) = 1
    /\ log[1].kind = "Book not found in KJV data"
    /\ Len(extracted) = 2
    /\ extracted[2].text = <<"g", "1", ".", "2">>

RefLevelKinds == {"Could not parse reference", "Unknown book",
                  "Book not found in KJV data", "Chapter not found"}

RefLevelWarnings(r) == {k \in WarningsOf(r) : log[k].kind \in RefLevelKinds}

\* reference r fails at the parse, unknown-book, book-not-in-corpus or
\* chapter-out-of-range stage
FailsAtReferenceLevel(r) ==
    LET P == parse_results[r]
    IN  \/ P = None
        \/ P.book \notin DOMAIN BOOK_ABBREV
        \/ MatchingBooks(P) = {}
        \/ P.chapter > Len(kjv_data[SetMin(MatchingBooks(P))].chapters)

\* the verse numbers of reference r beyond the verse count of its chapter
OutOfRangeVerses(r) ==
    LET P == parse_results[r]
    IN  IF FailsAtReferenceLevel(r) THEN {}
        ELSE LET chapter == PyIndex(kjv_data[SetMin(MatchingBooks(P))].chapters,
                                    P.chapter - 1)
             IN  {v \in P.start_verse..P.end_verse : v > Len(chapter)}

====
